---- MODULE Spec2Model ----
(***************************************************************************)
(* Model of src/main.py, the Scooter Center catalogue scraper: the         *)
(* interactive driver (main), the validity check (is_valid_link), the      *)
(* pagination reader (get_total_pages), the two listing walkers            *)
(* (scrape_category, search_products), the product extractor               *)
(* (scrape_product) and the export writer (save_to_csv).                   *)
(*                                                                         *)
(* The program is sequential.  One action is one step of it that ends at   *)
(* a network round trip (get_soup) or at a prompt.  The web site and the   *)
(* user are the environment: every get_soup call may fail or succeed, and  *)
(* a successful call returns any document of the bounded sets below.       *)
(***************************************************************************)
EXTENDS Integers, Sequences, FiniteSets, TLC

VARIABLES
    pc,            \* position of the program
    option,        \* main: option
    mode,          \* which walker the current menu iteration runs
    category_url,  \* main: category_url (a tokenised string)
    search_query,  \* main: search_query
    category,      \* main: category
    valid,         \* value returned by is_valid_link: "unset", "true", "false"
    page,          \* walker: page
    total_pages,   \* walker: total_pages
    all_links,     \* walker: all_links
    all_products,  \* walker: all_products
    idx,           \* walker: position of `for link in progress_bar`
    products,      \* main: products, [none |-> the value is None, rows |-> the list]
    error,         \* the uncaught exception that ended the process, or "none"
    log,           \* get_soup calls of the current menu iteration, in order
    files          \* save_to_csv calls of the current menu iteration, in order

vars == <<pc, option, mode, category_url, search_query, category, valid, page,
          total_pages, all_links, all_products, idx, products, error, log, files>>

(***************************************************************************)
(* Bounds and input sets                                                   *)
(***************************************************************************)
\* Largest total-page number a pagination marker carries.
MaxTotal == 2

\* href values of product boxes.
Links == {"a", "b"}

\* The product boxes of a listing page, each given by the href of its title
\* anchor: pages with no, one or two boxes.
BoxSeqs == {<<>>} \cup {<<l>> : l \in Links} \cup {<<l, m>> : l \in Links, m \in Links}

\* Pages probed by is_valid_link, which reads only the number of boxes.
ProbeBoxSeqs == {<<>>, <<"a">>, <<"a", "b">>}

\* Texts the user types at the category prompt, cut into tokens: the
\* substrings main removes or splits at, and the text between them.
CategoryUrls ==
    { <<"https://", "www.", "scooter-center.com", "/", "en", "/", "vespa">>,
      <<"https://", "www.", "scooter-center.com", "/", "en">>,
      <<"vespa">> }

SearchQueries == {"brake"}

Options == {"1", "2", "3", "9"}

NoChars == <<>>
NoLinks == <<>>
NoRows == <<>>
NoLog == <<>>
NoFiles == <<>>

(***************************************************************************)
(* get_total_pages                                                         *)
(***************************************************************************)
DigitChars == <<"0", "1", "2", "3", "4", "5", "6", "7", "8", "9">>

IsDigit(c) == \E d \in 1..Len(DigitChars) : DigitChars[d] = c

DigitValue(c) == (CHOOSE d \in 1..Len(DigitChars) : DigitChars[d] = c) - 1

RECURSIVE Numeral(_)
\* The decimal text of an integer, as the site prints it.
Numeral(n) ==
    IF n < 0 THEN <<"-">> \o Numeral(0 - n)
    ELSE IF n < 10 THEN <<DigitChars[n + 1]>>
    ELSE Numeral(n \div 10) \o <<DigitChars[(n % 10) + 1]>>

\* int(text) raises ValueError unless text is an optional sign and digits.
IntOk(t) ==
    LET body == IF Len(t) > 0 /\ t[1] \in {"-", "+"} THEN Tail(t) ELSE t
    IN  Len(body) > 0 /\ \A i \in 1..Len(body) : IsDigit(body[i])

RECURSIVE DigitsValue(_)
DigitsValue(t) ==
    IF Len(t) = 0 THEN 0
    ELSE 10 * DigitsValue(SubSeq(t, 1, Len(t) - 1)) + DigitValue(t[Len(t)])

IntOf(t) ==
    IF t[1] = "-" THEN 0 - DigitsValue(Tail(t))
    ELSE IF t[1] = "+" THEN DigitsValue(Tail(t))
    ELSE DigitsValue(t)

\* The span.paging--display element of a listing page: whether it is there,
\* whether it holds a <strong>, and that element's text.
NoMarker == [present |-> FALSE, strong |-> FALSE, text |-> NoChars]

MalformedTexts == {NoChars, <<"x">>, <<"1", "x">>}

PagingMarkers ==
    {NoMarker, [present |-> TRUE, strong |-> FALSE, text |-> NoChars]}
    \cup {[present |-> TRUE, strong |-> TRUE, text |-> Numeral(n)] : n \in (0 - 1)..MaxTotal}
    \cup {[present |-> TRUE, strong |-> TRUE, text |-> t] : t \in MalformedTexts}

\* The exception get_total_pages raises on this marker, or "none".
get_total_pages_error(m) ==
    IF ~m.present THEN "none"
    ELSE IF ~m.strong THEN "AttributeError"
    ELSE IF ~IntOk(m.text) THEN "ValueError"
    ELSE "none"

get_total_pages(m) == IF m.present THEN IntOf(m.text) ELSE 1

(***************************************************************************)
(* get_soup and the documents it returns                                   *)
(***************************************************************************)
BASE_URL == "https://www.scooter-center.com"

\* A product page: each marker is absent (<<>>) or holds one text; srcsets
\* are the srcset attributes of the thumbnail images, in document order.
EmptyDoc == [title |-> <<>>, sku |-> <<>>, price |-> <<>>, description |-> <<>>,
             srcsets |-> <<>>]

FullDoc == [title |-> <<"Seat">>, sku |-> <<"P1">>, price |-> <<"9.99">>,
            description |-> <<"A seat">>, srcsets |-> <<"s1.jpg", "s2.jpg">>]

ProductDocs == {EmptyDoc, FullDoc}

\* A get_soup result: None (ok = FALSE), or a parsed page, given by what the
\* callers read of it: the product boxes, the pagination marker and the
\* product markers.  A caller's pages vary in the part that caller reads.
NoSoup == [ok |-> FALSE, boxes |-> NoLinks, paging |-> NoMarker, product |-> EmptyDoc]

Soup(b, m, d) == [ok |-> TRUE, boxes |-> b, paging |-> m, product |-> d]

ListingSoups(S) == {NoSoup} \cup {Soup(b, NoMarker, EmptyDoc) : b \in S}

FirstSoups == {NoSoup} \cup {Soup(NoLinks, m, EmptyDoc) : m \in PagingMarkers}

ProductSoups == {NoSoup} \cup {Soup(NoLinks, NoMarker, d) : d \in ProductDocs}

\* One get_soup call: a network round trip, appended to the log.  `by` names
\* the call site and r is what the call returned.
get_soup(by, url, r) == log' = Append(log, [by |-> by, url |-> url, soup |-> r])

\* f"{category_url}?p={page}&followSearch=9850&o=1&n=120"
CategoryPageUrl(u, p) == u \o <<"?p=">> \o Numeral(p) \o <<"&followSearch=9850&o=1&n=120">>

\* f"{BASE_URL}/en/search?p={page}&followSearch=9998&q={search_query}&o=7&n=120"
SearchPageUrl(q, p) ==
    <<BASE_URL, "/en/search?p=">> \o Numeral(p) \o <<"&followSearch=9998&q=", q, "&o=7&n=120">>

\* Python truth value of a list.
ListTruthy(l) == Len(l) > 0

\* A dict taken for false when all its values are empty.
DictTruthyByValues(d) == \E k \in DOMAIN d : d[k] # ""

\* Python truth value of a dict: it has a key.
DictTruthy(d) == DOMAIN d # {}

\* A test for None alone, which lets an empty list through.
ProductsNotNone(p) == ~p.none

\* Python truth value of main's products: None and [] are false.
ProductsTruthy(p) == ~p.none /\ ListTruthy(p.rows)

(***************************************************************************)
(* is_valid_link                                                           *)
(***************************************************************************)
\* A check of the fetch alone, without the count of product boxes.
is_valid_link_fetched(r) == r.ok

is_valid_link(r) == IF ~r.ok THEN FALSE ELSE Len(r.boxes) > 0

BoolText(b) == IF b THEN "true" ELSE "false"

(***************************************************************************)
(* scrape_product                                                          *)
(***************************************************************************)
TextOr(marker) == IF Len(marker) > 0 THEN marker[1] ELSE ""

\* The dict scrape_product builds from a fetched page.
ProductRecord(doc) ==
    ("Title" :> TextOr(doc.title)) @@ ("Part Number" :> TextOr(doc.sku))
    @@ ("Price" :> TextOr(doc.price)) @@ ("Desciption" :> TextOr(doc.description))
    @@ ("Image" :> TextOr(doc.srcsets))

(***************************************************************************)
(* main: the category name                                                 *)
(***************************************************************************)
\* str.replace(t, ""), on tokens.
Replace(s, t) == SelectSeq(s, LAMBDA x : x # t)

RECURSIVE Split(_, _)
\* str.split(sep), on tokens: the parts between the separators.
Split(s, sep) ==
    IF \A i \in 1..Len(s) : s[i] # sep THEN <<s>>
    ELSE LET i == CHOOSE j \in 1..Len(s) : s[j] = sep /\ \A k \in 1..(j - 1) : s[k] # sep
         IN  <<SubSeq(s, 1, i - 1)>> \o Split(SubSeq(s, i + 1, Len(s)), sep)

url_parts(u) == Split(Replace(Replace(u, "https://"), "www."), "/")

(***************************************************************************)
(* State                                                                   *)
(***************************************************************************)
NoProducts == [none |-> TRUE, rows |-> NoRows]

Init ==
    /\ pc = "menu"
    /\ option = ""
    /\ mode = "none"
    /\ category_url = NoChars
    /\ search_query = ""
    /\ category = NoChars
    /\ valid = "unset"
    /\ page = 1
    /\ total_pages = 1
    /\ all_links = NoLinks
    /\ all_products = NoRows
    /\ idx = 1
    /\ products = NoProducts
    /\ error = "none"
    /\ log = NoLog
    /\ files = NoFiles

\* A new pass of `while True`: the locals of the previous pass are gone.
NewPass(o, m, u, q) ==
    /\ option' = o
    /\ mode' = m
    /\ category_url' = u
    /\ search_query' = q
    /\ valid' = "unset"
    /\ page' = 1
    /\ total_pages' = 1
    /\ all_links' = NoLinks
    /\ all_products' = NoRows
    /\ idx' = 1
    /\ products' = NoProducts
    /\ log' = NoLog
    /\ files' = NoFiles

(***************************************************************************)
(* main                                                                    *)
(***************************************************************************)
\* option "1": read the URL and take the third part as the category name.
ChooseCategory ==
    /\ pc = "menu"
    /\ \E u \in CategoryUrls :
         /\ NewPass("1", "category", u, "")
         /\ IF Len(url_parts(u)) < 3
              THEN /\ category' = NoChars
                   /\ error' = "IndexError"
                   /\ pc' = "crashed"
              ELSE /\ category' = url_parts(u)[3]
                   /\ error' = error
                   /\ pc' = "cat_valid"

\* `if is_valid_link(category_url):`
MainIsValidLink ==
    /\ pc = "cat_valid"
    /\ \E r \in ListingSoups(ProbeBoxSeqs) :
         /\ get_soup("is_valid_link", category_url, r)
         /\ valid' = BoolText(is_valid_link(r))
         /\ pc' = IF is_valid_link(r) THEN "first" ELSE "menu"
    /\ UNCHANGED <<option, mode, category_url, search_query, category, page, total_pages,
                   all_links, all_products, idx, products, error, files>>

\* option "2": read the query and enter search_products.
ChooseSearch ==
    /\ pc = "menu"
    /\ \E q \in SearchQueries : NewPass("2", "search", NoChars, q)
    /\ category' = NoChars
    /\ pc' = "search_valid"
    /\ UNCHANGED error

\* option "3"
ChooseExit ==
    /\ pc = "menu"
    /\ NewPass("3", "none", NoChars, "")
    /\ category' = NoChars
    /\ pc' = "exited"
    /\ UNCHANGED error

\* any other option: an error line, and the menu again
ChooseInvalid ==
    /\ pc = "menu"
    /\ \E o \in Options \ {"1", "2", "3"} : NewPass(o, "none", NoChars, "")
    /\ category' = NoChars
    /\ pc' = "menu"
    /\ UNCHANGED error

\* save_to_csv(products, filename): one file written, all rows of products.
save_to_csv(rows, filename) ==
    files' = Append(files, [filename |-> filename, rows |-> rows])

\* `if products: save_to_csv(products, f"{category}.csv")`
MainSaveCategory ==
    /\ pc = "returned"
    /\ mode = "category"
    /\ IF ProductsTruthy(products)
         THEN save_to_csv(products.rows, category \o <<".csv">>)
         ELSE files' = files
    /\ pc' = "menu"
    /\ UNCHANGED <<option, mode, category_url, search_query, category, valid, page,
                   total_pages, all_links, all_products, idx, products, error, log>>

\* `if products: save_to_csv(products, f"{search_query}.csv")`
MainSaveSearch ==
    /\ pc = "returned"
    /\ mode = "search"
    /\ IF ProductsTruthy(products)
         THEN save_to_csv(products.rows, <<search_query, ".csv">>)
         ELSE files' = files
    /\ pc' = "menu"
    /\ UNCHANGED <<option, mode, category_url, search_query, category, valid, page,
                   total_pages, all_links, all_products, idx, products, error, log>>

(***************************************************************************)
(* The listing walker: scrape_category, and the same code in               *)
(* search_products                                                         *)
(***************************************************************************)
\* An entry that goes on to the loop when the first fetch fails.
WalkFirstGoesOn(url) ==
    /\ pc = "first"
    /\ page' = 1
    /\ all_links' = NoLinks
    /\ all_products' = NoRows
    /\ idx' = 1
    /\ \E r \in FirstSoups :
         /\ get_soup("first_page", url, r)
         /\ products' = products
         /\ IF r.ok /\ get_total_pages_error(r.paging) # "none"
              THEN /\ error' = get_total_pages_error(r.paging)
                   /\ pc' = "crashed"
                   /\ total_pages' = total_pages
              ELSE /\ error' = error
                   /\ pc' = "loop"
                   /\ total_pages' = IF r.ok THEN get_total_pages(r.paging) ELSE 1
    /\ UNCHANGED <<option, mode, category_url, search_query, category, valid, files>>

\* Entry: the locals, then the fetch of page 1 that reads the page count.
WalkFirst(url) ==
    /\ pc = "first"
    /\ page' = 1
    /\ all_links' = NoLinks
    /\ all_products' = NoRows
    /\ idx' = 1
    /\ \E r \in FirstSoups :
         /\ get_soup("first_page", url, r)
         /\ IF ~r.ok
              THEN /\ products' = [none |-> FALSE, rows |-> NoRows]
                   /\ pc' = "returned"
                   /\ UNCHANGED <<total_pages, error>>
              ELSE /\ products' = products
                   /\ IF get_total_pages_error(r.paging) # "none"
                        THEN /\ error' = get_total_pages_error(r.paging)
                             /\ pc' = "crashed"
                             /\ total_pages' = total_pages
                        ELSE /\ error' = error
                             /\ pc' = "loop"
                             /\ total_pages' = get_total_pages(r.paging)
    /\ UNCHANGED <<option, mode, category_url, search_query, category, valid, files>>

\* A loop that forgets `page += 1`.
NextPageStuck(p) == p

\* The value of page after a pass of the while loop that did not break.
NextPage(p) == p + 1

\* A loop that skips a failed or empty page and goes on to the next.
WalkPageSkips(url) ==
    /\ pc = "loop"
    /\ \/ /\ ~(page <= total_pages)
          /\ pc' = "extract"
          /\ UNCHANGED <<page, all_links, log>>
       \/ /\ page <= total_pages
          /\ \E r \in ListingSoups(BoxSeqs) :
               /\ get_soup("page_loop", url, r)
               /\ pc' = "loop"
               /\ all_links' = all_links \o r.boxes
               /\ page' = page + 1
    /\ UNCHANGED <<option, mode, category_url, search_query, category, valid, total_pages,
                   all_products, idx, products, error, files>>

\* One test of `while page <= total_pages` and, when it holds, one pass.
WalkPage(url) ==
    /\ pc = "loop"
    /\ \/ /\ ~(page <= total_pages)
          /\ pc' = "extract"
          /\ UNCHANGED <<page, all_links, log>>
       \/ /\ page <= total_pages
          /\ \E r \in ListingSoups(BoxSeqs) :
               /\ get_soup("page_loop", url, r)
               /\ IF ~r.ok \/ ~ListTruthy(r.boxes)
                    THEN /\ pc' = "extract"
                         /\ UNCHANGED <<page, all_links>>
                    ELSE /\ pc' = "loop"
                         /\ all_links' = all_links \o r.boxes
                         /\ page' = NextPage(page)
    /\ UNCHANGED <<option, mode, category_url, search_query, category, valid, total_pages,
                   all_products, idx, products, error, files>>

\* A loop that hands the first link to every pass.
LinkAtFirst(links, i) == links[1]

\* The link the for loop hands to its pass number i.
LinkAt(links, i) == links[i]

\* One pass of `for link in progress_bar`: scrape_product(link), which returns
\* None when get_soup does, and the append of a truthy result.
WalkLink ==
    /\ pc = "extract"
    /\ idx <= Len(all_links)
    /\ \E r \in ProductSoups :
         /\ get_soup("scrape_product", <<LinkAt(all_links, idx)>>, r)
         /\ all_products' =
              IF r.ok /\ DictTruthy(ProductRecord(r.product))
                THEN Append(all_products, ProductRecord(r.product))
                ELSE all_products
    /\ idx' = idx + 1
    /\ pc' = "extract"
    /\ UNCHANGED <<option, mode, category_url, search_query, category, valid, page,
                   total_pages, all_links, products, error, files>>

\* `return all_products`
WalkReturn ==
    /\ pc = "extract"
    /\ idx > Len(all_links)
    /\ products' = [none |-> FALSE, rows |-> all_products]
    /\ pc' = "returned"
    /\ UNCHANGED <<option, mode, category_url, search_query, category, valid, page,
                   total_pages, all_links, all_products, idx, error, log, files>>

ScrapeCategoryFirst == mode = "category" /\ WalkFirst(CategoryPageUrl(category_url, 1))

ScrapeCategoryPage == mode = "category" /\ WalkPage(CategoryPageUrl(category_url, page))

ScrapeCategoryLink == mode = "category" /\ WalkLink

ScrapeCategoryReturn == mode = "category" /\ WalkReturn

\* `if is_valid_link(search_url):`, and the implicit `return None` when not.
SearchProductsIsValidLink ==
    /\ pc = "search_valid"
    /\ \E r \in ListingSoups(ProbeBoxSeqs) :
         /\ get_soup("is_valid_link", SearchPageUrl(search_query, 1), r)
         /\ valid' = BoolText(is_valid_link(r))
         /\ IF is_valid_link(r)
              THEN /\ pc' = "first"
                   /\ products' = products
              ELSE /\ pc' = "returned"
                   /\ products' = NoProducts
    /\ UNCHANGED <<option, mode, category_url, search_query, category, page, total_pages,
                   all_links, all_products, idx, error, files>>

SearchProductsFirst == mode = "search" /\ WalkFirst(SearchPageUrl(search_query, 1))

SearchProductsPage == mode = "search" /\ WalkPage(SearchPageUrl(search_query, page))

SearchProductsLink == mode = "search" /\ WalkLink

SearchProductsReturn == mode = "search" /\ WalkReturn

(***************************************************************************)
(* Specification                                                           *)
(***************************************************************************)
Walk ==
    \/ ScrapeCategoryFirst
    \/ ScrapeCategoryPage
    \/ ScrapeCategoryLink
    \/ ScrapeCategoryReturn
    \/ SearchProductsIsValidLink
    \/ SearchProductsFirst
    \/ SearchProductsPage
    \/ SearchProductsLink
    \/ SearchProductsReturn

Next ==
    \/ ChooseCategory
    \/ ChooseSearch
    \/ ChooseExit
    \/ ChooseInvalid
    \/ MainIsValidLink
    \/ MainSaveCategory
    \/ MainSaveSearch
    \/ Walk

Spec == Init /\ [][Next]_vars

\* Every get_soup call returns, and the program then takes its next step.
FairSpec == Spec /\ WF_vars(Walk)

(***************************************************************************)
(* What the log shows                                                      *)
(***************************************************************************)
\* The get_soup calls of one call site, in order.
CallsBy(by) == SelectSeq(log, LAMBDA e : e.by = by)

RECURSIVE Flatten(_)
Flatten(ss) == IF Len(ss) = 0 THEN <<>> ELSE Head(ss) \o Flatten(Tail(ss))

Occurrences(s, x) == Cardinality({i \in 1..Len(s) : s[i] = x})

Max(a, b) == IF a >= b THEN a ELSE b

\* The walker calls: the fetch that reads the page count and the loop's.
WalkFetches == Len(CallsBy("first_page")) + Len(CallsBy("page_loop"))

\* The listing-page fetches of the walker function: search_products also
\* fetches page 1 for its validity check.
ListingFetches ==
    WalkFetches + (IF mode = "search" THEN Len(CallsBy("is_valid_link")) ELSE 0)

\* The walker has read a total-page count.
TotalKnown ==
    /\ pc \in {"loop", "extract", "returned", "menu"}
    /\ Len(CallsBy("first_page")) = 1
    /\ CallsBy("first_page")[1].soup.ok

\* The walker function has returned a list to main.
WalkReturned == pc \in {"returned", "menu"} /\ mode # "none" /\ ~products.none

\* The URLs handed to scrape_product, in order.
ProductUrls == [i \in 1..Len(CallsBy("scrape_product")) |-> CallsBy("scrape_product")[i].url[1]]

\* The URL of listing page p of the current pass.
PageUrl(p) ==
    IF mode = "category" THEN CategoryPageUrl(category_url, p)
    ELSE SearchPageUrl(search_query, p)

(***************************************************************************)
(* C1                                                                      *)
(***************************************************************************)
\* C1 as stated: with a total-page count N >= 1, one run of the walker issues
\* at most N listing-page fetches, the fetch that reads the count included.
C1_AtMostN == (TotalKnown /\ total_pages >= 1) => WalkFetches <= total_pages

\* C1 amended: with a total-page count N >= 1, scrape_category issues at most
\* N + 1 listing-page fetches (the one that reads the count, then at most one
\* for each page 1..N), and search_products at most N + 2 (its validity
\* check fetches page 1 once more).
C1_AtMostNPlusOne ==
    (TotalKnown /\ total_pages >= 1) =>
        /\ WalkFetches <= total_pages + 1
        /\ ListingFetches <= total_pages + (IF mode = "search" THEN 2 ELSE 1)

\* A category run that fetched N + 1 listing pages, N >= 1.
C1_Witness ==
    /\ TotalKnown /\ total_pages >= 1 /\ mode = "category" /\ pc = "returned"
    /\ WalkFetches = total_pages + 1

(***************************************************************************)
(* C2                                                                      *)
(***************************************************************************)
\* C2 as stated: when the walker returns, every collected URL has been
\* fetched as a product page exactly once, however often it was collected,
\* and no other URL has been fetched as a product page.
C2_OncePerDistinctLink ==
    WalkReturned =>
        \A u \in Links :
            Occurrences(ProductUrls, u) = (IF Occurrences(all_links, u) > 0 THEN 1 ELSE 0)

\* C2 amended: when the walker returns, the product-page fetches are the
\* collected links, one fetch per entry of the list and in its order: a URL
\* collected k times is fetched k times, a URL not collected is not fetched.
C2_OncePerCollectedEntry ==
    WalkReturned =>
        /\ ProductUrls = all_links
        /\ \A u \in Links : Occurrences(ProductUrls, u) = Occurrences(all_links, u)

\* A returned run that collected the same URL twice, and another URL.
C2_Witness ==
    /\ WalkReturned
    /\ \E u \in Links : Occurrences(all_links, u) = 2 /\ Occurrences(ProductUrls, u) = 2
    /\ \E u \in Links : Occurrences(all_links, u) = 1

(***************************************************************************)
(* C3                                                                      *)
(***************************************************************************)
FirstFetchFailed == Len(CallsBy("first_page")) > 0 /\ ~CallsBy("first_page")[1].soup.ok

\* C3: when the walker's first listing-page fetch fails, the run returns the
\* empty list, no listing page and no product page is fetched after it, and
\* no error is raised.
C3_FirstFetchFails ==
    FirstFetchFailed =>
        /\ pc \in {"returned", "menu"}
        /\ products = [none |-> FALSE, rows |-> NoRows]
        /\ log[Len(log)].by = "first_page"
        /\ Len(CallsBy("first_page")) = 1
        /\ error = "none"

\* A search run back in main after its first listing-page fetch failed.
C3_Witness == FirstFetchFailed /\ mode = "search" /\ pc = "menu"

(***************************************************************************)
(* C4                                                                      *)
(***************************************************************************)
\* The passes of the loop that broke: a failed fetch or a page without boxes.
Stops == {j \in 1..Len(CallsBy("page_loop")) :
            ~CallsBy("page_loop")[j].soup.ok \/ Len(CallsBy("page_loop")[j].soup.boxes) = 0}

\* The links of the first n pages the loop fetched.
LinksOfPages(n) == Flatten([j \in 1..n |-> CallsBy("page_loop")[j].soup.boxes])

FetchedProducts == SelectSeq(CallsBy("scrape_product"), LAMBDA e : e.soup.ok)

\* C5: the list the walker returns holds, in link-collection order, one
\* record for each collected link whose product page was fetched, also when
\* all its fields are empty, and nothing for a link whose fetch failed.
C5_RecordsInOrder ==
    WalkReturned =>
        /\ ProductUrls = all_links
        /\ products.rows = [i \in 1..Len(FetchedProducts) |->
                              ProductRecord(FetchedProducts[i].soup.product)]

\* A returned run with a failed product fetch, a record of empty fields and a
\* record of filled fields after it.
C5_Witness ==
    /\ WalkReturned
    /\ Len(CallsBy("scrape_product")) = 3 /\ Len(products.rows) = 2
    /\ ~CallsBy("scrape_product")[1].soup.ok
    /\ products.rows[1] = ProductRecord(EmptyDoc)
    /\ products.rows[2] = ProductRecord(FullDoc)

(***************************************************************************)
(* C6                                                                      *)
(***************************************************************************)
\* C6: in one pass of the menu loop save_to_csv is called at most once, and
\* only after is_valid_link returned true and the walker returned a list
\* that is not empty, which is the list written; after is_valid_link
\* returned false nothing but its own fetch was issued and no file written.
C6_ExportGuard ==
    /\ Len(files) <= 1
    /\ Len(files) = 1 =>
         /\ valid = "true"
         /\ WalkReturned
         /\ Len(products.rows) >= 1
         /\ files[1].rows = products.rows
    /\ valid = "false" =>
         /\ Len(log) = 1
         /\ WalkFetches = 0
         /\ Len(CallsBy("scrape_product")) = 0
         /\ Len(files) = 0
    /\ (pc = "menu" /\ WalkReturned /\ Len(products.rows) = 0) => Len(files) = 0

\* A search pass that wrote its file.
C6_Witness == Len(files) = 1 /\ mode = "search" /\ pc = "menu" /\ Len(files[1].rows) = 2

(***************************************************************************)
(* C7                                                                      *)
(***************************************************************************)
\* C7: the menu loop ends only when exit is chosen: the process never ends
\* on an uncaught error, whatever the user types, and an invalid menu choice
\* leaves the program at the menu with no fetch issued and no file written.
C7_LoopsUntilExit ==
    /\ pc \in {"exited", "crashed"} => option = "3"
    /\ error = "none"
    /\ option \in Options \ {"1", "2", "3"} =>
         pc = "menu" /\ Len(log) = 0 /\ Len(files) = 0

(***************************************************************************)
(* C8                                                                      *)
(***************************************************************************)
\* The URL is_valid_link is called with in the current pass.
ProbedUrl == IF mode = "category" THEN category_url ELSE SearchPageUrl(search_query, 1)

\* C8: is_valid_link issues exactly one fetch, of the probed URL; it returns
\* false when the fetch fails or the page has no product box and true when
\* the page has at least one; a failed fetch raises no error.
C8_ValidityCheck ==
    valid # "unset" =>
        LET calls == CallsBy("is_valid_link")
        IN  /\ Len(calls) = 1
            /\ log[1] = calls[1]
            /\ calls[1].url = ProbedUrl
            /\ (~calls[1].soup.ok \/ Len(calls[1].soup.boxes) = 0) => valid = "false"
            /\ (calls[1].soup.ok /\ Len(calls[1].soup.boxes) >= 1) => valid = "true"
            /\ Len(log) = 1 => (error = "none" /\ pc # "crashed")

\* is_valid_link returned false for a fetched page without product boxes.
C8_Witness ==
    /\ valid = "false" /\ Len(log) = 1
    /\ log[1].soup.ok /\ Len(log[1].soup.boxes) = 0

(***************************************************************************)
(* C9                                                                      *)
(***************************************************************************)
\* C9: get_total_pages returns 1 when the pagination marker is absent and
\* the embedded number when it is present, and raises no error when the
\* marker is present with malformed content, so that no walker run ends in
\* an error.
C9_NoPaginationError ==
    \A i \in 1..Len(CallsBy("first_page")) :
        LET e == CallsBy("first_page")[i]
        IN  e.soup.ok =>
              /\ error = "none"
              /\ pc # "crashed"
              /\ ~e.soup.paging.present => total_pages = 1
              /\ \A n \in (0 - 1)..MaxTotal :
                   (e.soup.paging.strong /\ e.soup.paging.text = Numeral(n)) => total_pages = n

(***************************************************************************)
(* C10                                                                     *)
(***************************************************************************)
\* The passes the while loop may still make, plus one for its last test.
PagesLeft == IF pc = "loop" THEN Max(total_pages, 0) + 2 - page ELSE 0

\* The passes the for loop may still make, plus one for the return.
LinksLeft == IF pc \in {"loop", "extract"} THEN Len(all_links) + 2 - idx ELSE 0

\* A step of the walker lowers (PagesLeft, LinksLeft) in lexicographic order.
VariantFalls ==
    pc \in {"loop", "extract"} =>
        \/ PagesLeft' < PagesLeft
        \/ PagesLeft' = PagesLeft /\ LinksLeft' < LinksLeft

EventuallyReturns == (pc \in {"loop", "extract"}) ~> (pc = "returned")

====
